---- MODULE Spec2Model ----
(***************************************************************************)
(* State-machine model of hunter's ListView<Files> (src/src/listview.rs):  *)
(* selection / offset / render buffer / seeking flag, the key dispatcher   *)
(* and refresh.  Indices are 0-based as in the Rust source; a TLA+         *)
(* sequence s holds the Rust element s[i] at position i + 1.               *)
(*                                                                         *)
(* The content source (crate::files::Files / File) is not part of          *)
(* listview.rs.  Its operations are modelled from the specification's      *)
(* description of the content capability set and are kept apart below.     *)
(***************************************************************************)
EXTENDS Integers, Sequences, FiniteSets, TLC

VARIABLES view, ysize

vars == <<view, ysize>>

(***************************************************************************)
(* Bounds of the model.                                                    *)
(***************************************************************************)
\* window sizes 1..MaxWin are explored
MaxWin == 3
\* at most this many items carry a tag or a multi-select flag at once
MaxFlagged == 1
\* steps that would take the selection index beyond MaxSel are not explored
MaxSel == 4
\* steps that would take the offset beyond MaxOffset are not explored
MaxOffset == 6

\* `for _ in 0..10` of the jump keys 'P' and 'N'
JumpCount == 10

(***************************************************************************)
(* The environment: a small file system.  Directory 0 is "/", with the     *)
(* tree /d, /d/e (empty); directory 3 is the root of a separate fixture    *)
(* that holds five plain files.                                            *)
(* Names are sequences of one-character strings.                           *)
(***************************************************************************)
NoDir == -1

Alphabet == <<".", "A", "B", "a", "b", "c", "d", "e">>

Ord(c) == CHOOSE i \in 1..Len(Alphabet) : Alphabet[i] = c

FileIds == 1..10

FileName(id) ==
    CASE id = 1  -> <<"d">>
      [] id = 2  -> <<"A", "b">>
      [] id = 3  -> <<".", "a">>
      [] id = 4  -> <<"a", "B">>
      [] id = 5  -> <<"e">>
      [] id = 6  -> <<"a">>
      [] id = 7  -> <<"b">>
      [] id = 8  -> <<"c">>
      [] id = 9  -> <<"d">>
      [] id = 10 -> <<"e">>

\* the directory a file id opens as, NoDir for a regular file
FileAsDir(id) == CASE id = 1 -> 1 [] id = 5 -> 2 [] OTHER -> NoDir

FileIsDir(id) == FileAsDir(id) # NoDir

FileMTime(id) ==
    CASE id = 1  -> 3 [] id = 2  -> 1
      [] id = 3  -> 2 [] id = 4  -> 3 [] id = 5  -> 2
      [] id = 6  -> 3 [] id = 7  -> 5 [] id = 8  -> 1 [] id = 9 -> 4
      [] id = 10 -> 2

FileSize(id) ==
    CASE id \in {1, 5} -> 0
      [] id \in {3, 4} -> 1
      [] OTHER -> id

\* the listing of a directory as the file system returns it
DirEntries(d) ==
    CASE d = 0 -> <<2, 1>>
      [] d = 1 -> <<5, 4, 3>>
      [] d = 2 -> <<>>
      [] d = 3 -> <<8, 6, 10, 7, 9>>

DirParent(d) == CASE d = 1 -> 0 [] d = 2 -> 1 [] OTHER -> NoDir

Dirs == 0..3

(***************************************************************************)
(* Strings.                                                                *)
(***************************************************************************)
LowerChar(c) == CASE c = "A" -> "a" [] c = "B" -> "b" [] OTHER -> c

\* str::to_lowercase
ToLowercase(s) == [i \in 1..Len(s) |-> LowerChar(s[i])]

\* str::contains
Contains(s, t) ==
    \E i \in 0..(Len(s) - Len(t)) : SubSeq(s, i + 1, i + Len(t)) = t

RECURSIVE StrLess(_, _)
StrLess(a, b) ==
    IF b = <<>> THEN FALSE
    ELSE IF a = <<>> THEN TRUE
    ELSE IF Ord(Head(a)) # Ord(Head(b)) THEN Ord(Head(a)) < Ord(Head(b))
    ELSE StrLess(Tail(a), Tail(b))

\* Option<T>: <<>> is None, <<x>> is Some(x)
None == <<>>
Some(x) == <<x>>
IsSome(o) == o # <<>>
Unwrap(o) == o[1]

(***************************************************************************)
(* The content source: crate::files::{File, Files}.                        *)
(***************************************************************************)
\* a File value; two Files are equal when all their fields are
NewFile(id) == [id |-> id, tag |-> FALSE, selected |-> FALSE]

SortKeys == {"Name", "MTime"}

\* the comparison Files::sort uses for one sort key
FileLess(a, b, by) ==
    CASE by = "Name"  -> StrLess(FileName(a.id), FileName(b.id))
      [] by = "MTime" -> IF FileMTime(a.id) = FileMTime(b.id)
                         THEN StrLess(FileName(a.id), FileName(b.id))
                         ELSE FileMTime(a.id) < FileMTime(b.id)

RECURSIVE InsertSorted(_, _, _)
InsertSorted(s, x, by) ==
    IF s = <<>> THEN <<x>>
    ELSE IF FileLess(x, Head(s), by) THEN <<x>> \o s
    ELSE <<Head(s)>> \o InsertSorted(Tail(s), x, by)

\* a stable sort by one key
RECURSIVE SortBy(_, _)
SortBy(s, by) ==
    IF s = <<>> THEN <<>>
    ELSE InsertSorted(SortBy(SubSeq(s, 1, Len(s) - 1), by), s[Len(s)], by)

IsDirFile(f) == FileIsDir(f.id)
IsPlainFile(f) == ~FileIsDir(f.id)

Reverse(s) == [i \in 1..Len(s) |-> s[Len(s) + 1 - i]]

\* Files::sort: by key, then directories first (stable), then reversed;
\* marks the content dirty
FilesSort(c) ==
    LET byKey  == SortBy(c.files, c.sort)
        byDirs == IF c.dirs_first
                  THEN SelectSeq(byKey, IsDirFile) \o SelectSeq(byKey, IsPlainFile)
                  ELSE byKey
        sorted == IF c.reverse THEN Reverse(byDirs) ELSE byDirs
    IN  [c EXCEPT !.files = sorted, !.dirty = TRUE]

\* does a file pass the active filter
PassesFilter(f, filter) ==
    IsSome(filter) => Contains(FileName(f.id), Unwrap(filter))

\* the files that pass the active filter, in content order
FilteredFiles(c) ==
    LET Pass(f) == PassesFilter(f, c.filter) IN SelectSeq(c.files, Pass)

\* Files::len: the number of files that pass the active filter
FilesLen(c) == Len(FilteredFiles(c))

\* Files::new_from_path for a readable directory
FilesNewFromPath(d) ==
    FilesSort([dir |-> d,
               files |-> [i \in 1..Len(DirEntries(d)) |-> NewFile(DirEntries(d)[i])],
               sort |-> "Name", dirs_first |-> TRUE, reverse |-> FALSE,
               show_hidden |-> TRUE, filter |-> None, dirty |-> TRUE])

FilesCycleSort(c) ==
    [c EXCEPT !.sort = CASE c.sort = "Name" -> "MTime"
                         [] c.sort = "MTime" -> "Name",
              !.dirty = TRUE]

FilesReverseSort(c) == [c EXCEPT !.reverse = ~c.reverse, !.dirty = TRUE]

FilesToggleHidden(c) == [c EXCEPT !.show_hidden = ~c.show_hidden, !.dirty = TRUE]

IsHiddenId(id) == Head(FileName(id)) = "."

\* Files::reload_files: list the directory again, leave hidden files out
\* unless they are shown; a file that is still listed keeps its value
FilesReloadFiles(c) ==
    LET Shown(id) == c.show_hidden \/ ~IsHiddenId(id)
        ids == SelectSeq(DirEntries(c.dir), Shown)
        Old(id) == {c.files[i] : i \in {j \in 1..Len(c.files) : c.files[j].id = id}}
        Val(id) == IF Old(id) = {} THEN NewFile(id) ELSE CHOOSE f \in Old(id) : TRUE
    IN  FilesSort([c EXCEPT !.files = [i \in 1..Len(ids) |-> Val(ids[i])]])

FilesSetFilter(c, filter) == [c EXCEPT !.filter = filter, !.dirty = TRUE]

\* File::toggle_tag / File::toggle_selection on the file at index pos
FilesToggleTag(c, pos) ==
    [c EXCEPT !.files[pos + 1].tag = ~c.files[pos + 1].tag]

FilesToggleSelection(c, pos) ==
    [c EXCEPT !.files[pos + 1].selected = ~c.files[pos + 1].selected]

\* File::grand_parent of a file listed in directory c.dir
GrandParent(c) == IF DirParent(c.dir) = NoDir THEN None ELSE Some(DirParent(c.dir))

\* the number of files carrying a tag or a multi-select flag
Flagged(c) ==
    Cardinality({i \in 1..Len(c.files) : c.files[i].tag})
    + Cardinality({i \in 1..Len(c.files) : c.files[i].selected})

(***************************************************************************)
(* ListView<Files>.  A panic (index out of bounds, or an arithmetic        *)
(* overflow in a build with overflow checks) is recorded in the field      *)
(* panic; every operation passes an already panicked view through.         *)
(* A usize overflow has two outcomes: a build with overflow checks panics  *)
(* at it, a build without them wraps and goes on.  The operations compute  *)
(* the wrapping outcome and set the field overflowed; Outcomes adds the     *)
(* panic of the checking build to a handler that overflowed.               *)
(***************************************************************************)
Panic(v, why) == [v EXCEPT !.panic = why]

\* ListView::new
new(content) ==
    [content |-> content, lines |-> 0, selection |-> 0, offset |-> 0,
     buffer |-> <<>>, dirty |-> FALSE, seeking |-> FALSE, panic |-> "none",
     overflowed |-> FALSE]

\* Listable::len
len(v) == FilesLen(v.content)

move_up(v) ==
    IF v.panic # "none" THEN v
    ELSE IF v.selection = 0 THEN v
    ELSE IF v.selection < v.offset
         \* selection - offset overflows; the wrapped difference is not <= 0
         THEN [v EXCEPT !.selection = v.selection - 1, !.seeking = FALSE,
                        !.overflowed = TRUE]
    ELSE IF v.selection - v.offset <= 0
         THEN [v EXCEPT !.offset = v.offset - 1,
                        !.selection = v.selection - 1, !.seeking = FALSE]
    ELSE [v EXCEPT !.selection = v.selection - 1, !.seeking = FALSE]

move_down(v) ==
    IF v.panic # "none" THEN v
    ELSE IF v.lines = 0 \/ v.selection = v.lines - 1 THEN v
    ELSE IF v.selection + 1 >= ysize /\ v.offset > v.selection + 1
         \* selection + 1 - offset overflows; the wrapped difference is >= y_size
         THEN [v EXCEPT !.offset = v.offset + 1,
                        !.selection = v.selection + 1, !.seeking = FALSE,
                        !.overflowed = TRUE]
    ELSE IF v.selection + 1 >= ysize /\ v.selection + 1 - v.offset >= ysize
         THEN [v EXCEPT !.offset = v.offset + 1,
                        !.selection = v.selection + 1, !.seeking = FALSE]
    ELSE [v EXCEPT !.selection = v.selection + 1, !.seeking = FALSE]

\* scroll_to with the loop condition position + 2 > ysize + offset
RECURSIVE scroll_to_strict(_, _)
scroll_to_strict(position, offset) ==
    IF position + 2 > ysize + offset THEN scroll_to_strict(position, offset + 1)
    ELSE offset

\* the while loop of set_selection
RECURSIVE scroll_to(_, _)
scroll_to(position, offset) ==
    IF position + 2 >= ysize + offset THEN scroll_to(position, offset + 1)
    ELSE offset

set_selection(v, position) ==
    IF v.panic # "none" THEN v
    ELSE [v EXCEPT !.offset = scroll_to(position, 0), !.selection = position]

\* the bounds check of content[selection] and content.files[selection]
selection_in_bounds(v) == v.selection < Len(v.content.files)

\* selected_file / clone_selected_file, where the index is in bounds
selected_file(v) == v.content.files[v.selection + 1]

\* iter().position(|item| item == file).unwrap_or(0)
position_of(files, file) ==
    LET hits == {i \in 1..Len(files) : files[i] = file}
    IN  IF hits = {} THEN 0
        ELSE (CHOOSE i \in hits : \A j \in hits : i <= j) - 1

select_file(v, file) ==
    IF v.panic # "none" THEN v
    ELSE set_selection(v, position_of(v.content.files, file))

render_line(file) ==
    [tag  |-> file.tag,
     name |-> IF file.selected THEN <<" ", " ">> \o FileName(file.id)
              ELSE FileName(file.id),
     size |-> FileSize(file.id)]

render(v) ==
    LET shown == FilteredFiles(v.content)
    IN  [i \in 1..Len(shown) |-> render_line(shown[i])]

\* Listable::on_refresh: takes over the content's dirty bit
on_refresh(v) ==
    IF v.content.dirty
    THEN [v EXCEPT !.dirty = TRUE, !.content.dirty = FALSE]
    ELSE v

\* refresh that rebuilds the buffer only when its length differs
refresh_by_length(v) ==
    IF v.panic # "none" THEN v
    ELSE LET v1 == on_refresh(v)
             v2 == [v1 EXCEPT !.lines = len(v1)]
             v3 == IF v2.selection >= v2.lines /\ v2.selection # 0
                   THEN [v2 EXCEPT !.selection = v2.selection - 1]
                   ELSE v2
         IN  IF Len(v3.buffer) # len(v3)
             THEN [v3 EXCEPT !.buffer = render(v3), !.dirty = FALSE]
             ELSE v3

\* refresh that rebuilds the buffer and leaves the dirty flag set
refresh_dirty_kept(v) ==
    IF v.panic # "none" THEN v
    ELSE LET v1 == on_refresh(v)
             v2 == [v1 EXCEPT !.lines = len(v1)]
             v3 == IF v2.selection >= v2.lines /\ v2.selection # 0
                   THEN [v2 EXCEPT !.selection = v2.selection - 1]
                   ELSE v2
         IN  IF v3.dirty \/ Len(v3.buffer) # len(v3)
             THEN [v3 EXCEPT !.buffer = render(v3)]
             ELSE v3

refresh(v) ==
    IF v.panic # "none" THEN v
    ELSE LET v1 == on_refresh(v)
             v2 == [v1 EXCEPT !.lines = len(v1)]
             v3 == IF v2.selection >= v2.lines /\ v2.selection # 0
                   THEN [v2 EXCEPT !.selection = v2.selection - 1]
                   ELSE v2
         IN  IF v3.dirty \/ Len(v3.buffer) # len(v3)
             THEN [v3 EXCEPT !.buffer = render(v3), !.dirty = FALSE]
             ELSE v3

\* goto_path that resets selection and offset before it opens the path
goto_path_reset(v, path) ==
    IF v.panic # "none" THEN v
    ELSE IF path \in Dirs
         THEN refresh([v EXCEPT !.content = FilesNewFromPath(path),
                                !.selection = 0, !.offset = 0])
         ELSE [v EXCEPT !.selection = 0, !.offset = 0]

goto_path(v, path) ==
    IF v.panic # "none" THEN v
    ELSE IF path \in Dirs
         THEN refresh([v EXCEPT !.content = FilesNewFromPath(path),
                                !.selection = 0, !.offset = 0])
         ELSE v

goto_grand_parent(v) ==
    IF v.panic # "none" THEN v
    ELSE IF ~selection_in_bounds(v) THEN Panic(v, "index")
    ELSE IF IsSome(GrandParent(v.content))
         THEN goto_path(v, Unwrap(GrandParent(v.content)))
         ELSE v

goto_selected(v) ==
    IF v.panic # "none" THEN v
    ELSE IF ~selection_in_bounds(v) THEN Panic(v, "index")
    ELSE goto_path(v, FileAsDir(selected_file(v).id))

cycle_sort(v) ==
    IF v.panic # "none" THEN v
    ELSE IF ~selection_in_bounds(v) THEN Panic(v, "index")
    ELSE LET file == selected_file(v)
             v1 == [v EXCEPT !.content = FilesSort(FilesCycleSort(v.content))]
         IN  refresh(select_file(v1, file))

reverse_sort(v) ==
    IF v.panic # "none" THEN v
    ELSE IF ~selection_in_bounds(v) THEN Panic(v, "index")
    ELSE LET file == selected_file(v)
             v1 == [v EXCEPT !.content = FilesSort(FilesReverseSort(v.content))]
         IN  refresh(select_file(v1, file))

toggle_hidden(v) ==
    IF v.panic # "none" THEN v
    ELSE IF ~selection_in_bounds(v) THEN Panic(v, "index")
    ELSE LET file == selected_file(v)
             v1 == [v EXCEPT !.content =
                        FilesReloadFiles(FilesToggleHidden(v.content))]
         IN  refresh(select_file(v1, file))

toggle_dirs_first(v) ==
    IF v.panic # "none" THEN v
    ELSE IF ~selection_in_bounds(v) THEN Panic(v, "index")
    ELSE LET file == selected_file(v)
             v1 == [v EXCEPT !.content =
                        FilesSort([v.content EXCEPT
                                       !.dirs_first = ~v.content.dirs_first])]
         IN  refresh(select_file(v1, file))

\* lines 228-236 and 256-264: remember the file and the sort settings, sort
\* by modification time with directories not first, select the file again
mtime_order(v) ==
    LET file == selected_file(v)
        v1 == [v EXCEPT !.content =
                   FilesSort([v.content EXCEPT !.dirs_first = FALSE,
                                               !.sort = "MTime"])]
    IN  select_file(v1, file)

\* lines 245-252 and 272-279: remember the file now selected, put the sort
\* settings of the view orig back, sort, select the file again, refresh
restore_order(v, orig) ==
    IF v.panic # "none" THEN v
    ELSE IF ~selection_in_bounds(v) THEN Panic(v, "index")
    ELSE LET file == selected_file(v)
             v1 == [v EXCEPT !.content =
                        FilesSort([v.content EXCEPT
                                       !.dirs_first = orig.content.dirs_first,
                                       !.sort = orig.content.sort])]
             v2 == select_file(v1, file)
         IN  refresh([v2 EXCEPT !.seeking = TRUE])

\* lines 238-243: the step of select_next_mtime within the temporary order
next_mtime_step(v) ==
    LET v1 == mtime_order(v)
    IN  IF v1.seeking = FALSE \/ v1.selection + 1 = len(v1)
        THEN [v1 EXCEPT !.selection = 0, !.offset = 0]
        ELSE move_down(v1)

select_next_mtime(v) ==
    IF v.panic # "none" THEN v
    ELSE IF ~selection_in_bounds(v) THEN Panic(v, "index")
    ELSE restore_order(next_mtime_step(v), v)

\* lines 266-270: the step of select_prev_mtime within the temporary order
prev_mtime_step(v) ==
    LET v1 == mtime_order(v)
    IN  IF v1.seeking = FALSE \/ v1.selection = 0
        THEN IF len(v1) = 0
             \* len() - 1 overflows; the wrapped index is out of bounds in
             \* clone_selected_file
             THEN Panic([v1 EXCEPT !.overflowed = TRUE], "index")
             ELSE set_selection(v1, len(v1) - 1)
        ELSE move_up(v1)

select_prev_mtime(v) ==
    IF v.panic # "none" THEN v
    ELSE IF ~selection_in_bounds(v) THEN Panic(v, "index")
    ELSE restore_order(prev_mtime_step(v), v)

multi_select_file(v) ==
    IF v.panic # "none" THEN v
    ELSE IF ~selection_in_bounds(v) THEN Panic(v, "index")
    ELSE LET v1 == [v EXCEPT !.content =
                        FilesToggleSelection(v.content, v.selection)]
         IN  IF v1.selection >= Len(v1.buffer) THEN Panic(v1, "index")
             ELSE move_down([v1 EXCEPT !.buffer[v1.selection + 1] =
                                           render_line(selected_file(v1))])

toggle_tag(v) ==
    IF v.panic # "none" THEN v
    ELSE IF ~selection_in_bounds(v) THEN Panic(v, "index")
    ELSE LET v1 == [v EXCEPT !.content = FilesToggleTag(v.content, v.selection)]
         IN  IF v1.selection >= Len(v1.buffer) THEN Panic(v1, "index")
             ELSE move_down([v1 EXCEPT !.buffer[v1.selection + 1] =
                                           render_line(selected_file(v1))])

\* the file find_file's closure finds first: Some(index) or None
find_match(files, name) ==
    LET hits == {i \in 1..Len(files) :
                    Contains(ToLowercase(FileName(files[i].id)), name)}
    IN  IF hits = {} THEN None
        ELSE Some(CHOOSE i \in hits : \A j \in hits : i <= j)

\* find_file; input is what the minibuffer returned: None when cancelled
find_file(v, input) ==
    IF v.panic # "none" THEN v
    ELSE IF ~IsSome(input) THEN v
    ELSE LET found == find_match(v.content.files, Unwrap(input))
         IN  IF ~IsSome(found) THEN v
             ELSE select_file(v, v.content.files[Unwrap(found)])

\* filter; input is what the minibuffer returned: None when cancelled
filter(v, input) ==
    IF v.panic # "none" THEN v
    ELSE LET v1 == [v EXCEPT !.content = FilesSetFilter(v.content, input)]
         IN  IF v1.selection > len(v1) THEN set_selection(v1, len(v1))
             ELSE v1

\* for _ in 0..n { self.move_up() }
RECURSIVE move_up_times(_, _)
move_up_times(v, n) == IF n = 0 THEN v ELSE move_up_times(move_up(v), n - 1)

RECURSIVE move_down_times(_, _)
move_down_times(v, n) == IF n = 0 THEN v ELSE move_down_times(move_down(v), n - 1)

\* the rows get_drawlist shows: buffer.iter().skip(offset).take(ysize)
visible_rows(v) ==
    IF v.offset >= Len(v.buffer) THEN <<>>
    ELSE SubSeq(v.buffer, v.offset + 1,
                IF v.offset + ysize <= Len(v.buffer) THEN v.offset + ysize
                ELSE Len(v.buffer))

\* get_drawlist: selection - offset is computed for every visible row
get_drawlist(v) ==
    IF v.panic # "none" THEN v
    ELSE IF visible_rows(v) # <<>> /\ v.selection < v.offset
         \* the wrapped difference equals no row index: no row is inverted
         THEN [v EXCEPT !.overflowed = TRUE]
         ELSE v

\* on_key that refreshes the view on a key outside the mapping
on_key_refreshing(v, key, input) ==
    CASE key \in {"Up", "p"}   -> refresh(move_up(v))
      [] key = "P"             -> refresh(move_up_times(v, JumpCount))
      [] key = "N"             -> refresh(move_down_times(v, JumpCount))
      [] key \in {"Down", "n"} -> refresh(move_down(v))
      [] key = "Ctrl-s"        -> find_file(v, input)
      [] key = "F"             -> filter(v, input)
      [] key = "Left"          -> goto_grand_parent(v)
      [] key = "Right"         -> goto_selected(v)
      [] key = " "             -> multi_select_file(v)
      [] key = "t"             -> toggle_tag(v)
      [] key = "h"             -> toggle_hidden(v)
      [] key = "r"             -> reverse_sort(v)
      [] key = "s"             -> cycle_sort(v)
      [] key = "K"             -> select_next_mtime(v)
      [] key = "k"             -> select_prev_mtime(v)
      [] key = "d"             -> toggle_dirs_first(v)
      [] OTHER                 -> refresh(v)

\* Listable::on_key; input is the minibuffer's answer for the keys that prompt
on_key(v, key, input) ==
    CASE key \in {"Up", "p"}   -> refresh(move_up(v))
      [] key = "P"             -> refresh(move_up_times(v, JumpCount))
      [] key = "N"             -> refresh(move_down_times(v, JumpCount))
      [] key \in {"Down", "n"} -> refresh(move_down(v))
      [] key = "Ctrl-s"        -> find_file(v, input)
      [] key = "F"             -> filter(v, input)
      [] key = "Left"          -> goto_grand_parent(v)
      [] key = "Right"         -> goto_selected(v)
      [] key = " "             -> multi_select_file(v)
      [] key = "t"             -> toggle_tag(v)
      [] key = "h"             -> toggle_hidden(v)
      [] key = "r"             -> reverse_sort(v)
      [] key = "s"             -> cycle_sort(v)
      [] key = "K"             -> select_next_mtime(v)
      [] key = "k"             -> select_prev_mtime(v)
      [] key = "d"             -> toggle_dirs_first(v)
      [] OTHER                 -> v

\* the keys of the fixed mapping
MappedKeys == {"Up", "p", "P", "N", "Down", "n", "Ctrl-s", "F", "Left", "Right",
               " ", "t", "h", "r", "s", "K", "k", "d"}

(***************************************************************************)
(* The state machine.  A panic ends the program: the aborted state is the  *)
(* view the handler started on, with the reason of the panic.              *)
(***************************************************************************)
Aborted(why) == [view EXCEPT !.panic = why]

Final(w) ==
    IF w.panic # "none" THEN Aborted(w.panic)
    ELSE [w EXCEPT !.overflowed = FALSE]

\* the views a handler that computed w can leave, over both builds
Outcomes(w) ==
    {Final(w)} \cup (IF w.overflowed THEN {Aborted("overflow")} ELSE {})

\* what the minibuffer can return to find_file and to filter
FindInputs == {None, Some(<<"a">>), Some(<<"b">>), Some(<<"B">>), Some(<<"e">>)}

FilterInputs == {None, Some(<<"a">>), Some(<<"e">>)}

\* keys outside the mapping
OtherKeys == {"x", "Esc"}

InitIn(dirs) ==
    /\ ysize \in 1..MaxWin
    /\ \E d \in dirs : view = new(FilesNewFromPath(d))

\* the view w is within the bounds of the exploration
Explored(w) ==
    \/ w.panic # "none"
    \/ /\ w.selection <= MaxSel
       /\ w.offset <= MaxOffset
       /\ Flagged(w.content) <= MaxFlagged

\* one handler call on the running view: on_key for a key, with the text the
\* minibuffer returns where the handler asks for one
Dispatch(key, input) ==
    /\ view.panic = "none"
    /\ \E w \in Outcomes(on_key(view, key, input)) :
          /\ Explored(w)
          /\ view' = w
    /\ UNCHANGED ysize

KeyUp ==
    \E key \in {"Up", "p"} : Dispatch(key, None)

KeyDown ==
    \E key \in {"Down", "n"} : Dispatch(key, None)

KeyJumpUp ==
    Dispatch("P", None)

KeyJumpDown ==
    Dispatch("N", None)

KeyFind ==
    \E input \in FindInputs : Dispatch("Ctrl-s", input)

KeyFilter ==
    \E input \in FilterInputs : Dispatch("F", input)

KeyLeft ==
    Dispatch("Left", None)

KeyRight ==
    Dispatch("Right", None)

KeySpace ==
    Dispatch(" ", None)

KeyTag ==
    Dispatch("t", None)

KeyHidden ==
    Dispatch("h", None)

KeyReverse ==
    Dispatch("r", None)

KeyCycle ==
    Dispatch("s", None)

KeyNextMtime ==
    Dispatch("K", None)

KeyPrevMtime ==
    Dispatch("k", None)

KeyDirsFirst ==
    Dispatch("d", None)

KeyOther ==
    \E key \in OtherKeys : Dispatch(key, None)

\* Widget::refresh called by the owner of the view
Refresh ==
    /\ view.panic = "none"
    /\ \E w \in Outcomes(refresh(view)) :
          /\ Explored(w)
          /\ view' = w
    /\ UNCHANGED ysize

\* Widget::get_drawlist called by the owner of the view
GetDrawlist ==
    /\ view.panic = "none"
    /\ \E w \in Outcomes(get_drawlist(view)) :
          /\ Explored(w)
          /\ view' = w
    /\ UNCHANGED ysize

Init == InitIn({0, 1, 2})

Next ==
    \/ KeyUp \/ KeyDown \/ KeyJumpUp \/ KeyJumpDown
    \/ KeyFind \/ KeyFilter \/ KeyLeft \/ KeyRight
    \/ KeySpace \/ KeyTag \/ KeyHidden \/ KeyReverse \/ KeyCycle
    \/ KeyNextMtime \/ KeyPrevMtime \/ KeyDirsFirst \/ KeyOther
    \/ Refresh \/ GetDrawlist

Spec == Init /\ [][Next]_vars

\* the directory tree without the two flag toggles
NextSort ==
    \/ KeyUp \/ KeyDown \/ KeyJumpUp \/ KeyJumpDown
    \/ KeyFind \/ KeyFilter \/ KeyLeft \/ KeyRight
    \/ KeyHidden \/ KeyReverse \/ KeyCycle
    \/ KeyNextMtime \/ KeyPrevMtime \/ KeyDirsFirst \/ KeyOther
    \/ Refresh \/ GetDrawlist

SpecSort == Init /\ [][NextSort]_vars

\* the fixture directory: navigation, find, filter, the toggles and refresh
InitNav == InitIn({3})

NextNav ==
    \/ KeyUp \/ KeyDown \/ KeyJumpUp \/ KeyJumpDown
    \/ KeyFind \/ KeyFilter \/ KeySpace \/ KeyTag \/ KeyOther
    \/ Refresh \/ GetDrawlist

SpecNav == InitNav /\ [][NextNav]_vars

(***************************************************************************)
(* Properties.                                                             *)
(***************************************************************************)
Running == view.panic = "none"

\* C1: in every reachable state the selection index is below the (filtered)
\* content length when that length is positive, and is 0 when it is 0.
C1_SelectionInRange ==
    Running =>
        /\ len(view) > 0 => (0 <= view.selection /\ view.selection < len(view))
        /\ len(view) = 0 => view.selection = 0

\* C2: in every reachable state, for every window size, the viewport holds
\* the selection: offset <= selection < offset + window_size.
C2_SelectionInWindow ==
    Running =>
        /\ view.offset <= view.selection
        /\ view.selection < view.offset + ysize

\* C3: no operation reachable through the key dispatcher or get_drawlist
\* panics in any reachable state.
C3_NoPanic == view.panic = "none"

\* the view is as a refresh leaves it: line count and buffer are current
Refreshed ==
    /\ view.lines = len(view)
    /\ Len(view.buffer) = len(view)
    /\ ~view.dirty
    /\ ~view.content.dirty

\* w is a view an operation returned without panic or overflow
Returned(w) == w.panic = "none" /\ ~w.overflowed

\* C4: move_down() is a no-op when the collection is empty or the selection
\* is the last index; otherwise selection grows by one and offset grows by
\* one exactly when the new selection is >= offset + window_size.  With 5
\* items and window size 3, four calls from (0, 0) give (4, 2) and a fifth
\* changes nothing.  Stated for views whose cached line count is current.
C4_MoveDown ==
    (Running /\ view.lines = len(view)) =>
        LET w  == move_down(view)
            n  == len(view)
            w4 == move_down_times(view, 4)
        IN  /\ IF n = 0 \/ view.selection = n - 1
               THEN w = view
               ELSE /\ Returned(w)
                    /\ w.selection = view.selection + 1
                    /\ w.offset = IF view.selection + 1 >= view.offset + ysize
                                  THEN view.offset + 1
                                  ELSE view.offset
            /\ (n = 5 /\ ysize = 3 /\ view.selection = 0 /\ view.offset = 0) =>
                   /\ w4.selection = 4 /\ w4.offset = 2
                   /\ move_down(w4) = w4

InWindow(w) ==
    /\ Returned(w)
    /\ w.offset <= w.selection
    /\ w.selection < w.offset + ysize

\* C6: from a state with the selection inside the window and a current
\* line count, move_up(), move_down() and set_selection(p) for every p in
\* [0, length) leave the selection inside [offset, offset + window_size),
\* for every window size.
C6_StaysInWindow ==
    (Running /\ view.lines = len(view) /\ InWindow(view)) =>
        /\ InWindow(move_up(view))
        /\ InWindow(move_down(view))
        /\ \A p \in 0..(len(view) - 1) : InWindow(set_selection(view, p))

\* the temporary order of select_next_mtime and select_prev_mtime
MTimeFiles(c) ==
    FilesSort([c EXCEPT !.dirs_first = FALSE, !.sort = "MTime"]).files

\* C7: in seeking mode, when the selected item is not the last of the
\* modification-time order, select_next_mtime() followed by
\* select_prev_mtime() leaves the selection on the same item and the content
\* in its original order.
C7_NextThenPrev ==
    (/\ Running /\ view.seeking /\ selection_in_bounds(view)
     /\ position_of(MTimeFiles(view.content), selected_file(view)) + 1
            < Len(view.content.files)) =>
        LET w == select_prev_mtime(select_next_mtime(view))
        IN  /\ Returned(w)
            /\ selection_in_bounds(w)
            /\ selected_file(w) = selected_file(view)
            /\ w.content.files = view.content.files

\* the rendered lines of the files whose name contains f, in content order
RECURSIVE MatchingLines(_, _)
MatchingLines(files, f) ==
    IF files = <<>> THEN <<>>
    ELSE (IF Contains(FileName(Head(files).id), f)
          THEN <<render_line(Head(files))>> ELSE <<>>)
         \o MatchingLines(Tail(files), f)

\* C8: after a filter f is set and the view refreshed, the buffer is exactly
\* the rendered lines of the items whose name contains f, in content order;
\* after the filter is cleared and the view refreshed, the buffer is as long
\* as the full content.
C8_FilterBuffer ==
    Running =>
        \A input \in FilterInputs :
            LET w == refresh(filter(view, input))
            IN  /\ w.panic = "none"
                /\ IF IsSome(input)
                   THEN w.buffer = MatchingLines(w.content.files, Unwrap(input))
                   ELSE Len(w.buffer) = Len(w.content.files)

\* a refreshed view under a filter that lets only some of the files pass
C8_Witness ==
    /\ Running /\ Refreshed
    /\ IsSome(view.content.filter)
    /\ view.buffer # <<>>
    /\ Len(view.buffer) < Len(view.content.files)
    /\ view.buffer = MatchingLines(view.content.files, Unwrap(view.content.filter))

\* the view w is the view v with exactly the buffer line at v's selection
\* replaced by the line of the item toggled there, and moved on as move_down
PatchedOneLine(v, w) ==
    /\ Returned(w)
    /\ Len(w.buffer) = Len(v.buffer)
    /\ v.selection < Len(v.buffer)
    /\ w.buffer[v.selection + 1] = render_line(w.content.files[v.selection + 1])
    /\ w.buffer[v.selection + 1] # v.buffer[v.selection + 1]
    /\ \A i \in 1..Len(v.buffer) :
           i # v.selection + 1 => w.buffer[i] = v.buffer[i]
    /\ w.selection = move_down(v).selection
    /\ w.offset = move_down(v).offset

\* C9: toggle_tag() and multi_select_file() change exactly one buffer entry,
\* the one at the selection index, to the re-rendered line of the toggled
\* item, leave the other entries and the buffer length alone, and advance
\* the selection as move_down() does.  Stated for refreshed views.
C9_TogglePatchesOneLine ==
    (Running /\ Refreshed) =>
        /\ PatchedOneLine(view, toggle_tag(view))
        /\ PatchedOneLine(view, multi_select_file(view))

\* C10: find succeeds exactly when some unfiltered item's name contains the
\* fragment, ignoring letter case in the name and in the fragment, and then
\* selects the first such item.
C10_FindIgnoresCase ==
    Running =>
        \A input \in FindInputs \ {None} :
            LET files == view.content.files
                hits  == {i \in 1..Len(files) :
                             Contains(ToLowercase(FileName(files[i].id)),
                                      ToLowercase(Unwrap(input)))}
                w     == find_file(view, input)
            IN  /\ IsSome(find_match(files, Unwrap(input))) <=> hits # {}
                /\ hits # {} =>
                       w.selection + 1 = CHOOSE i \in hits : \A j \in hits : i <= j

\* the state a recoverable failure has to leave alone
Visible(v) == <<v.content, v.selection, v.offset, v.buffer, v.seeking>>

\* the minibuffer answers for which find fails: cancelled, or no match
FindFails(v, input) ==
    \/ ~IsSome(input)
    \/ ~IsSome(find_match(v.content.files, Unwrap(input)))

\* C11: a recoverable failure leaves content, selection, offset, buffer and
\* seeking flag as they were: find without a match or with a cancelled
\* prompt, goto_path on a path that cannot be opened, goto_grand_parent
\* without a grandparent path.
C11_FailureKeepsState ==
    Running =>
        /\ \A input \in FindInputs :
               FindFails(view, input) =>
                   /\ Returned(on_key(view, "Ctrl-s", input))
                   /\ Visible(on_key(view, "Ctrl-s", input)) = Visible(view)
        /\ Visible(goto_path(view, NoDir)) = Visible(view)
        /\ (selection_in_bounds(view)
              /\ FileAsDir(selected_file(view).id) = NoDir) =>
               /\ Returned(on_key(view, "Right", None))
               /\ Visible(on_key(view, "Right", None)) = Visible(view)
        /\ (selection_in_bounds(view) /\ ~IsSome(GrandParent(view.content))) =>
               /\ Returned(on_key(view, "Left", None))
               /\ Visible(on_key(view, "Left", None)) = Visible(view)

\* a refreshed view with a regular file selected below the first row, in a
\* directory without grandparent, where some find fragment has no match
C11_Witness ==
    /\ Running /\ Refreshed
    /\ view.selection > 0 /\ selection_in_bounds(view)
    /\ FileAsDir(selected_file(view).id) = NoDir
    /\ ~IsSome(GrandParent(view.content))
    /\ \E input \in FindInputs : IsSome(input) /\ FindFails(view, input)

\* C12: a key outside the fixed mapping changes nothing: the view after
\* on_key is the view before it, in every field.
C12_UnmappedKeyIsNoOp ==
    Running =>
        \A key \in OtherKeys :
            /\ key \notin MappedKeys
            /\ on_key(view, key, None) = view

\* a view under a filter, away from the first row, that a refresh would change
C12_Witness ==
    /\ Running /\ ~Refreshed
    /\ IsSome(view.content.filter)
    /\ view.selection > 0
    /\ refresh(view) # view

\* the minibuffer answers a key can meet
KeyInputs(key) ==
    CASE key = "Ctrl-s" -> FindInputs
      [] key = "F"      -> FilterInputs
      [] OTHER          -> {None}

\* C13: every handled key that changes visible state has refreshed the view
\* before on_key returns: on return the cached line count is the content
\* length and the buffer is what render() gives.  Stated from refreshed views.
C13_HandledKeyRefreshes ==
    (Running /\ Refreshed) =>
        \A key \in MappedKeys :
            \A input \in KeyInputs(key) :
                LET w == on_key(view, key, input)
                IN  (Returned(w) /\ Visible(w) # Visible(view)) =>
                        /\ w.lines = len(w)
                        /\ w.buffer = render(w)

\* C14: after every move_up() or move_down() made for an up or down key, also
\* when the selection is already the first or the last index, seeking is
\* false.
C14_MovementClearsSeeking ==
    Running =>
        \A key \in {"Up", "p", "Down", "n"} :
            LET w == on_key(view, key, None)
            IN  Returned(w) => ~w.seeking

\* the index of the selected file in the temporary modification-time order
MTimePos(v) == position_of(MTimeFiles(v.content), selected_file(v))

\* C15: within the modification-time order, select_next_mtime selects index 0
\* and select_prev_mtime the last index when seeking mode was false or the
\* step would leave the bounds; otherwise the item selected is the one right
\* after (next) or right before (prev) the item selected before.  After
\* either call seeking mode is true.
C15_MtimeStep ==
    (Running /\ selection_in_bounds(view)) =>
        LET M  == MTimeFiles(view.content)
            n  == Len(M)
            p  == MTimePos(view)
            nx == select_next_mtime(view)
            pv == select_prev_mtime(view)
        IN  /\ Returned(nx) /\ nx.seeking /\ selection_in_bounds(nx)
            /\ selected_file(nx) = IF ~view.seeking \/ p + 1 >= n
                                   THEN M[1] ELSE M[p + 2]
            /\ Returned(pv) /\ pv.seeking /\ selection_in_bounds(pv)
            /\ selected_file(pv) = IF ~view.seeking \/ p = 0
                                   THEN M[n] ELSE M[p]

\* the view w is the view v with sort key, sort direction, directories-first
\* flag and content order as in v, selecting the file chosen at the index
\* that file has in that order
SeekRestored(v, chosen, w) ==
    /\ w.content.sort = v.content.sort
    /\ w.content.reverse = v.content.reverse
    /\ w.content.dirs_first = v.content.dirs_first
    /\ w.content.files = v.content.files
    /\ w.selection = position_of(w.content.files, chosen)

\* C16: select_next_mtime and select_prev_mtime leave sort key, sort
\* direction, directories-first flag and content order as before the call,
\* and the final selection index is the position, in that order, of the item
\* chosen in the modification-time order.  Stated for the calls that return.
C16_SeekRestoresOrder ==
    (Running /\ selection_in_bounds(view)) =>
        /\ LET t == next_mtime_step(view)
               w == select_next_mtime(view)
           IN  w.panic = "none" => SeekRestored(view, selected_file(t), w)
        /\ LET t == prev_mtime_step(view)
               w == select_prev_mtime(view)
           IN  w.panic = "none" => SeekRestored(view, selected_file(t), w)

\* C17: after cycle_sort, reverse_sort, toggle_dirs_first and toggle_hidden
\* the selection index is the position, in the new order, of the item that
\* was selected before (compared by value), or 0 if it is no longer there.
C17_SortKeepsSelectedItem ==
    (Running /\ selection_in_bounds(view)) =>
        \A w \in {cycle_sort(view), reverse_sort(view),
                  toggle_dirs_first(view), toggle_hidden(view)} :
            /\ Returned(w)
            /\ w.selection = position_of(w.content.files, selected_file(view))

\* refresh has to rebuild the buffer of v: a dirty flag is set, or the buffer
\* is not as long as the filtered content
RebuildDue(v) ==
    \/ v.dirty
    \/ v.content.dirty
    \/ Len(v.buffer) # len(v)

\* C18: refresh() rebuilds the whole buffer exactly when a dirty flag is set
\* or the buffer length differs from the filtered content length; after
\* every refresh() the buffer is as long as the filtered content and the
\* dirty flags are clear; without a rebuild the buffer is unchanged.
C18_RefreshRebuild ==
    Running =>
        LET w == refresh(view)
        IN  /\ Returned(w)
            /\ Len(w.buffer) = len(w)
            /\ ~w.dirty /\ ~w.content.dirty
            /\ RebuildDue(view) => w.buffer = render(w)
            /\ ~RebuildDue(view) => w.buffer = view.buffer

\* a view whose buffer is stale at the length of the filtered content: only
\* the dirty flag makes refresh rebuild it
C18_Witness ==
    /\ Running
    /\ view.content.dirty
    /\ view.buffer # <<>>
    /\ Len(view.buffer) = len(view)
    /\ view.buffer # render(view)

\* k consecutive select_next_mtime() calls
RECURSIVE next_mtime_times(_, _)
next_mtime_times(v, k) ==
    IF k = 0 THEN v ELSE select_next_mtime(next_mtime_times(v, k - 1))

\* C19: from seeking mode false on a collection of n >= 1 items, n
\* consecutive select_next_mtime() calls select every item once, in
\* modification-time order: the k-th call selects the k-th item of that
\* order, and the content order is after each call what it was before.
C19_SeekWalksList ==
    (Running /\ ~view.seeking /\ selection_in_bounds(view)) =>
        LET M == MTimeFiles(view.content)
        IN  \A k \in 1..Len(M) :
                LET w == next_mtime_times(view, k)
                IN  /\ Returned(w)
                    /\ selection_in_bounds(w)
                    /\ selected_file(w) = M[k]
                    /\ w.content.files = view.content.files

\* C20: in every state a refresh has left, with or without a filter and
\* with at least one line to show, buffer[selection] is the rendered line of
\* the item selected_file() returns.
C20_SelectionSameItem ==
    (Running /\ Refreshed /\ len(view) > 0) =>
        /\ selection_in_bounds(view)
        /\ view.selection < Len(view.buffer)
        /\ view.buffer[view.selection + 1] = render_line(selected_file(view))

====
